---- MODULE Spec2Model ----
(***************************************************************************)
(* Weight-and-balance core of airplane-rs (src/src/weight_and_balance.rs). *)
(*                                                                         *)
(* Every quantity of the program is a Rust f64.  The module therefore      *)
(* starts with IEEE-754 binary64 arithmetic (round to nearest, ties to     *)
(* even, signed zeros, infinities, NaN), built on natural numbers of       *)
(* arbitrary size because TLC's integers are 32 bits wide.  The airplane   *)
(* aggregate and its operations follow, translated from the source.        *)
(***************************************************************************)
EXTENDS Integers, Sequences, FiniteSets, TLC

(***************************************************************************)
(* Natural numbers of arbitrary size: little-endian sequences of 15-bit    *)
(* limbs without leading zero limbs; zero is the empty sequence.  TLC      *)
(* evaluates on a small stack, so the operations are written without       *)
(* recursion over the limbs: carries are resolved by lookahead.            *)
(***************************************************************************)
LimbBits == 15

Pow2(n) == 2 ^ n

Limb == Pow2(LimbBits)

Max(a, b) == IF a >= b THEN a ELSE b

Min(a, b) == IF a <= b THEN a ELSE b

\* the function f on 1..n as a sequence of values
AsSeq(f) == SubSeq(f, 1, Len(f))

\* a without its leading zero limbs
NTrim(a) ==
  LET n == CHOOSE i \in 0..Len(a) :
             (i = 0 \/ a[i] # 0) /\ \A j \in (i + 1)..Len(a) : a[j] = 0
  IN  IF n = Len(a) THEN a ELSE SubSeq(a, 1, n)

\* the limbs of an integer 0 <= n < 2^31
NFromInt(n) ==
  NTrim(<<n % Limb, (n \div Limb) % Limb, n \div (Limb * Limb)>>)

\* the number whose limb i is s[i], each s[i] in 0..2*Limb-2: limb i receives a
\* carry iff a limb below it overflows and every limb between is Limb-1
NCarry(s) ==
  LET n == Len(s)
      cin(i) == \E j \in 1..(i - 1) :
                  s[j] >= Limb /\ \A t \in (j + 1)..(i - 1) : s[t] = Limb - 1
  IN  NTrim(AsSeq([i \in 1..(n + 1) |->
                    ((IF i <= n THEN s[i] ELSE 0) + (IF cin(i) THEN 1 ELSE 0)) % Limb]))

\* limb i of a, zero beyond its length
NLimb(a, i) == IF 1 <= i /\ i <= Len(a) THEN a[i] ELSE 0

NAdd(a, b) ==
  NCarry(AsSeq([i \in 1..Max(Len(a), Len(b)) |-> NLimb(a, i) + NLimb(b, i)]))

\* a - b for a >= b: limb i lends iff a limb below it is short and every limb
\* between is level
NSub(a, b) ==
  LET d == AsSeq([i \in 1..Len(a) |-> a[i] - NLimb(b, i)])
      bin(i) == \E j \in 1..(i - 1) :
                  d[j] < 0 /\ \A t \in (j + 1)..(i - 1) : d[t] = 0
  IN  NTrim(AsSeq([i \in 1..Len(a) |->
                    (d[i] - (IF bin(i) THEN 1 ELSE 0) + Limb) % Limb]))

\* -1, 0, 1 as a < b, a = b, a > b
NCmp(a, b) ==
  IF Len(a) < Len(b) THEN -1
  ELSE IF Len(a) > Len(b) THEN 1
  ELSE IF \E i \in 1..Len(a) : a[i] < b[i] /\ \A j \in (i + 1)..Len(a) : a[j] = b[j]
       THEN -1
  ELSE IF a = b THEN 0 ELSE 1

\* a * k for 0 <= k <= Limb
NMulSmall(a, k) ==
  IF a = <<>> \/ k = 0 THEN <<>>
  ELSE NCarry(AsSeq([i \in 1..(Len(a) + 1) |->
                      ((NLimb(a, i) * k) % Limb) + ((NLimb(a, i - 1) * k) \div Limb)]))

NShlLimbs(a, n) == IF a = <<>> THEN a ELSE [i \in 1..n |-> 0] \o a

\* column k of a * b up to limb i of a: the low halves of the limb products
\* a[j] * b[k+1-j] and the high halves of the products a[j] * b[k-j], j in 1..i
RECURSIVE NMulColumn(_, _, _, _)
NMulColumn(a, b, k, i) ==
  IF i = 0 THEN 0
  ELSE ((NLimb(a, i) * NLimb(b, k + 1 - i)) % Limb)
       + ((NLimb(a, i) * NLimb(b, k - i)) \div Limb)
       + NMulColumn(a, b, k, i - 1)

\* the number whose columns are cols, each below 8 * Limb
NMulCarry(cols) ==
  NCarry(AsSeq([k \in 1..Len(cols) |->
                 (cols[k] % Limb) + (NLimb(cols, k - 1) \div Limb)]))

\* a * b for a and b of at most 4 limbs
NMul(a, b) ==
  IF a = <<>> \/ b = <<>> THEN <<>>
  ELSE NMulCarry(AsSeq([k \in 1..(Len(a) + Len(b)) |-> NMulColumn(a, b, k, Len(a))]))

NShl(a, k) == NShlLimbs(NMulSmall(a, Pow2(k % LimbBits)), k \div LimbBits)

NShr(a, k) ==
  LET q == k \div LimbBits
      r == k % LimbBits
      n == Len(a) - q
  IN  IF n <= 0 THEN <<>>
      ELSE NTrim(AsSeq([i \in 1..n |->
                   (a[i + q] \div Pow2(r))
                   + (IF i + q < Len(a)
                      THEN (a[i + q + 1] % Pow2(r)) * Pow2(LimbBits - r)
                      ELSE 0)]))

\* the number of bits of 0 <= n < Limb
IntBitLen(n) ==
  CHOOSE k \in 0..LimbBits : n < Pow2(k) /\ (k = 0 \/ n >= Pow2(k - 1))

NBitLen(a) == IF a = <<>> THEN 0 ELSE LimbBits * (Len(a) - 1) + IntBitLen(a[Len(a)])

\* bit i (from 0) of a
NBit(a, i) ==
  LET q == i \div LimbBits
  IN  IF i < 0 \/ q >= Len(a) THEN 0 ELSE (a[q + 1] \div Pow2(i % LimbBits)) % 2

\* TRUE iff some bit below bit i of a is set
NLowNonZero(a, i) ==
  LET q == i \div LimbBits
      r == i % LimbBits
  IN  IF i <= 0 THEN FALSE
      ELSE \/ \E j \in 1..Min(q, Len(a)) : a[j] # 0
           \/ (q < Len(a) /\ a[q + 1] % Pow2(r) # 0)

\* the number of zero bits below the lowest set bit of a > 0
NTrailingZeros(a) ==
  LET i == CHOOSE j \in 1..Len(a) : a[j] # 0 /\ \A t \in 1..(j - 1) : a[t] = 0
      z == CHOOSE k \in 0..(LimbBits - 1) :
             a[i] % Pow2(k + 1) # 0 /\ a[i] % Pow2(k) = 0
  IN  LimbBits * (i - 1) + z

\* Long division of r by d, for r < d and d's top limb at least Limb/2, one
\* digit at a time.  With rr = r * Limb, the digit floor(rr / d) estimated from
\* the two top limbs is at most 2 too large.
NDivEstimate(d, rr) ==
  Min(Limb - 1, (NLimb(rr, Len(d) + 1) * Limb + NLimb(rr, Len(d))) \div d[Len(d)])

NDivFits(d, rr, c) == NCmp(NMulSmall(d, c), rr) <= 0

NDivCorrect(d, rr, est) ==
  IF NDivFits(d, rr, est) THEN est
  ELSE IF NDivFits(d, rr, est - 1) THEN est - 1 ELSE est - 2

\* the digit q and the remainder rr - q * d
NDivStep(d, rr, q) == [q |-> q, r |-> NSub(rr, NMulSmall(d, q))]

NDivDigit(r, d) ==
  NDivStep(d, NShlLimbs(r, 1),
           NDivCorrect(d, NShlLimbs(r, 1), NDivEstimate(d, NShlLimbs(r, 1))))

\* the digit q put below the digits of rest
NDivPut(q, rest) == [q |-> rest.q \o <<q>>, rem |-> rest.rem]

\* floor(r * Limb^n / d) and whether the division left a remainder, for r < d
RECURSIVE NDivDigits(_, _, _)
RECURSIVE NDivNext(_, _, _)
NDivDigits(r, d, n) ==
  IF n = 0 \/ r = <<>> THEN [q |-> [i \in 1..n |-> 0], rem |-> r # <<>>]
  ELSE NDivNext(NDivDigit(r, d), d, n)

NDivNext(s, d, n) == NDivPut(s.q, NDivDigits(s.r, d, n - 1))

(***************************************************************************)
(* f64: IEEE-754 binary64.  A finite value is (-1)^s * m * 2^e with m odd  *)
(* (zero: m = <<>>, e = 0), so that equal numbers are equal records.       *)
(***************************************************************************)
F64Precision == 53

F64MinExp == -1074

F64MaxExp == 1024

F64NaN == [k |-> "nan", s |-> 0, m |-> <<>>, e |-> 0]

F64Inf(s) == [k |-> "inf", s |-> s, m |-> <<>>, e |-> 0]

F64Zero(s) == [k |-> "fin", s |-> s, m |-> <<>>, e |-> 0]

IsNaN(x) == x.k = "nan"

IsInf(x) == x.k = "inf"

IsFinite(x) == x.k = "fin"

IsZero(x) == x.k = "fin" /\ x.m = <<>>

\* the finite value (-1)^s * m * 2^(e - z) for m > 0 with z trailing zero bits
F64Odd(s, m, e, z) == [k |-> "fin", s |-> s, m |-> NShr(m, z), e |-> e + z]

\* the finite value (-1)^s * m * 2^e, m > 0 exactly representable
F64Canon(s, m, e) == F64Odd(s, m, e, NTrailingZeros(m))

\* (-1)^s * q * 2^e for q of at most F64Precision bits: zero, finite or overflow
F64Pack(s, q, e) ==
  IF q = <<>> THEN F64Zero(s)
  ELSE IF NBitLen(q) + e > F64MaxExp THEN F64Inf(s)
  ELSE F64Canon(s, q, e)

\* TRUE iff m / 2^drop (and what lies below m, when sticky) rounds up from its
\* integer part q: above the half, or at the half with q odd
F64RoundsUp(m, sticky, drop, q) ==
  /\ NBit(m, drop - 1) = 1
  /\ (sticky \/ NLowNonZero(m, drop - 1) \/ NBit(q, 0) = 1)

F64RoundTo(s, m, e, sticky, drop, q) ==
  F64Pack(s, IF F64RoundsUp(m, sticky, drop, q) THEN NAdd(q, <<1>>) ELSE q, e + drop)

F64RoundDrop(s, m, e, sticky, drop) ==
  IF drop <= 0 THEN F64Pack(s, m, e)
  ELSE F64RoundTo(s, m, e, sticky, drop, NShr(m, drop))

\* (-1)^s * (m + f) * 2^e rounded to nearest, ties to even, where m > 0 and
\* 0 < f < 1 iff sticky: the bits below the precision and below the least
\* exponent are dropped
F64Round(s, m, e, sticky) ==
  F64RoundDrop(s, m, e, sticky, Max(NBitLen(m) - F64Precision, F64MinExp - e))

\* the f64 nearest to the integer n
F64FromInt(n) ==
  IF n = 0 THEN F64Zero(0)
  ELSE F64Round(IF n < 0 THEN 1 ELSE 0, NFromInt(IF n < 0 THEN -n ELSE n), 0, FALSE)

F64Neg(x) == IF IsNaN(x) THEN x ELSE [x EXCEPT !.s = 1 - x.s]

F64Abs(x) == IF IsNaN(x) THEN x ELSE [x EXCEPT !.s = 0]

MagCmpAligned(x, y, e) == NCmp(NShl(x.m, x.e - e), NShl(y.m, y.e - e))

MagCmpTop(x, y, tx, ty) ==
  IF tx < ty THEN -1
  ELSE IF tx > ty THEN 1
  ELSE MagCmpAligned(x, y, Min(x.e, y.e))

\* -1, 0, 1 as |x| < |y|, |x| = |y|, |x| > |y|, for finite x and y
MagCmp(x, y) ==
  IF x.m = <<>> THEN (IF y.m = <<>> THEN 0 ELSE -1)
  ELSE IF y.m = <<>> THEN 1
  ELSE MagCmpTop(x, y, NBitLen(x.m) + x.e, NBitLen(y.m) + y.e)

\* 1, -1 or 0 as x is +inf, -inf or finite
InfSign(x) == IF IsInf(x) THEN (IF x.s = 0 THEN 1 ELSE -1) ELSE 0

\* -1, 0, 1 as x < y, x = y, x > y, for x and y not NaN
F64Cmp(x, y) ==
  IF IsInf(x) \/ IsInf(y)
  THEN (IF InfSign(x) < InfSign(y) THEN -1 ELSE IF InfSign(x) > InfSign(y) THEN 1 ELSE 0)
  ELSE IF IsZero(x) /\ IsZero(y) THEN 0
  ELSE IF x.s # y.s THEN (IF x.s = 1 THEN -1 ELSE 1)
  ELSE MagCmp(x, y) * (IF x.s = 0 THEN 1 ELSE -1)

F64Eq(x, y) == ~IsNaN(x) /\ ~IsNaN(y) /\ F64Cmp(x, y) = 0

F64Lt(x, y) == ~IsNaN(x) /\ ~IsNaN(y) /\ F64Cmp(x, y) < 0

F64Le(x, y) == ~IsNaN(x) /\ ~IsNaN(y) /\ F64Cmp(x, y) <= 0

F64Gt(x, y) == ~IsNaN(x) /\ ~IsNaN(y) /\ F64Cmp(x, y) > 0

F64Ge(x, y) == ~IsNaN(x) /\ ~IsNaN(y) /\ F64Cmp(x, y) >= 0

\* the guard bits an operand keeps when the other lies wholly below them
F64Guard == F64Precision + 3

\* TRUE iff the finite nonzero y lies wholly below F64Guard bits under x's last
\* bit: y then only decides the rounding of x + y
F64Far(x, y) == x.e - (NBitLen(y.m) + y.e) >= F64Guard

\* x + y for F64Far(x, y), y of sign ys, a = x.m * 2^F64Guard
F64AddFar(x, ys, a) ==
  F64Round(x.s, IF x.s = ys THEN a ELSE NSub(a, <<1>>), x.e - F64Guard, TRUE)

\* x + y for finite nonzero x and y with mantissas a and b at the exponent e,
\* c = NCmp(a, b)
F64AddAligned(x, y, e, a, b, c) ==
  IF x.s # y.s /\ c = 0 THEN F64Zero(0)
  ELSE F64Round(IF x.s = y.s \/ c > 0 THEN x.s ELSE y.s,
                IF x.s = y.s THEN NAdd(a, b)
                ELSE IF c > 0 THEN NSub(a, b) ELSE NSub(b, a),
                e, FALSE)

F64AddAt(x, y, e, a, b) == F64AddAligned(x, y, e, a, b, NCmp(a, b))

F64AddNear(x, y, e) == F64AddAt(x, y, e, NShl(x.m, x.e - e), NShl(y.m, y.e - e))

F64Add(x, y) ==
  IF IsNaN(x) \/ IsNaN(y) THEN F64NaN
  ELSE IF IsInf(x) THEN (IF IsInf(y) /\ x.s # y.s THEN F64NaN ELSE x)
  ELSE IF IsInf(y) THEN y
  ELSE IF IsZero(x) THEN (IF IsZero(y) THEN F64Zero(IF x.s = 1 /\ y.s = 1 THEN 1 ELSE 0)
                          ELSE y)
  ELSE IF IsZero(y) THEN x
  ELSE IF F64Far(x, y) THEN F64AddFar(x, y.s, NShl(x.m, F64Guard))
  ELSE IF F64Far(y, x) THEN F64AddFar(y, x.s, NShl(y.m, F64Guard))
  ELSE F64AddNear(x, y, Min(x.e, y.e))

F64Sub(x, y) == F64Add(x, F64Neg(y))

\* the sign of a product or quotient of x and y
F64SignOf(x, y) == (x.s + y.s) % 2

F64Mul(x, y) ==
  IF IsNaN(x) \/ IsNaN(y) THEN F64NaN
  ELSE IF IsInf(x) \/ IsInf(y)
       THEN (IF IsZero(x) \/ IsZero(y) THEN F64NaN ELSE F64Inf(F64SignOf(x, y)))
  ELSE IF IsZero(x) \/ IsZero(y) THEN F64Zero(F64SignOf(x, y))
  ELSE F64Round(F64SignOf(x, y), NMul(x.m, y.m), x.e + y.e, FALSE)

\* the quotient digits computed: more bits than F64Precision + 2
F64DivDigits == (F64Precision + 2) \div LimbBits + 1

\* whole limbs wide enough for y.m and for one bit more than x.m
F64DivWidth(lx, ly) == LimbBits * ((Max(ly, lx + 1) + LimbBits - 1) \div LimbBits)

\* the digits r of the quotient and its remainder flag, rounded at exponent e
F64DivPack(s, r, e) == F64Round(s, NTrim(r.q), e, r.rem)

\* x / y for finite nonzero x and y with mantissas of lx and ly bits: x.m is
\* shifted to one bit less than the width ld, y.m to the full width
F64DivAt(x, y, lx, ly, ld) ==
  F64DivPack(F64SignOf(x, y),
             NDivDigits(NShl(x.m, ld - 1 - lx), NShl(y.m, ld - ly), F64DivDigits),
             x.e - y.e + (ld - ly) - (ld - 1 - lx) - LimbBits * F64DivDigits)

F64DivFinite(x, y, lx, ly) == F64DivAt(x, y, lx, ly, F64DivWidth(lx, ly))

F64Div(x, y) ==
  IF IsNaN(x) \/ IsNaN(y) THEN F64NaN
  ELSE IF IsInf(x) THEN (IF IsInf(y) THEN F64NaN ELSE F64Inf(F64SignOf(x, y)))
  ELSE IF IsInf(y) THEN F64Zero(F64SignOf(x, y))
  ELSE IF IsZero(y) THEN (IF IsZero(x) THEN F64NaN ELSE F64Inf(F64SignOf(x, y)))
  ELSE IF IsZero(x) THEN F64Zero(F64SignOf(x, y))
  ELSE F64DivFinite(x, y, NBitLen(x.m), NBitLen(y.m))

\* the f64 a decimal literal n/d denotes (n, d positive integers below 2^31)
F64Lit(n, d) == F64Div(F64FromInt(n), F64FromInt(d))

(***************************************************************************)
(* Quantity types.                                                         *)
(*   Volume            [unit |-> "Liter" | "Gallon", v |-> f64]            *)
(*   Mass              [tag |-> "Kilo", v |-> f64]                         *)
(*                     [tag |-> "Avgas" | "Mogas", v |-> Volume]           *)
(*   LeverArm          [tag |-> "Meter", v |-> f64]                        *)
(*   CenterOfGravity   [tag |-> "Meter" | "Millimeter", v |-> f64]         *)
(*   MassMoment        [tag |-> "KgM", v |-> f64]                          *)
(*   Option<Volume>    [tag |-> "None"] or [tag |-> "Some", v |-> Volume]  *)
(***************************************************************************)
AVGAS_FUEL_DENSITY_KG_LITER == F64Lit(72, 100)

MOGAS_FUEL_DENSITY_KG_LITER == F64Lit(74, 100)

LITERS_IN_GALLON == F64Div(F64FromInt(378541), F64FromInt(100000))

\* the literal 0.5 of add_max_fuel_within_limits, line 243
ARM_SPLIT == F64Lit(1, 2)

\* the literal 1000.0 of CenterOfGravity::meter, line 158
MM_IN_METER == F64FromInt(1000)

Liter(f) == [unit |-> "Liter", v |-> f]

Gallon(f) == [unit |-> "Gallon", v |-> f]

Kilo(f) == [tag |-> "Kilo", v |-> f]

Avgas(vol) == [tag |-> "Avgas", v |-> vol]

Mogas(vol) == [tag |-> "Mogas", v |-> vol]

Meter(f) == [tag |-> "Meter", v |-> f]

Millimeter(f) == [tag |-> "Millimeter", v |-> f]

KgM(f) == [tag |-> "KgM", v |-> f]

None == [tag |-> "None"]

Some(x) == [tag |-> "Some", v |-> x]

\* LeverArm::meter
meter(arm) == arm.v

\* Volume::to_liter
to_liter(vol) ==
  IF vol.unit = "Liter" THEN vol.v ELSE F64Mul(vol.v, LITERS_IN_GALLON)

\* to_gallon multiplying by the factor where it has to divide
to_gallon_Multiplying(vol) ==
  IF vol.unit = "Liter" THEN F64Mul(vol.v, LITERS_IN_GALLON) ELSE vol.v

\* Volume::to_gallon
to_gallon(vol) ==
  IF vol.unit = "Liter" THEN F64Div(vol.v, LITERS_IN_GALLON) ELSE vol.v

\* Mass::kilo, the arms of a fuel of the given density: l * density and
\* g * LITERS_IN_GALLON * density
FuelKilo(vol, density) ==
  IF vol.unit = "Liter" THEN F64Mul(vol.v, density)
  ELSE F64Mul(F64Mul(vol.v, LITERS_IN_GALLON), density)

\* Mass::kilo
kilo(mass) ==
  IF mass.tag = "Kilo" THEN mass.v
  ELSE FuelKilo(mass.v, IF mass.tag = "Avgas" THEN AVGAS_FUEL_DENSITY_KG_LITER
                        ELSE MOGAS_FUEL_DENSITY_KG_LITER)

\* Mass::to_avgas
to_avgas(mass) == Avgas(Liter(F64Div(kilo(mass), AVGAS_FUEL_DENSITY_KG_LITER)))

\* Mass::to_mogas
to_mogas(mass) == Mogas(Liter(F64Div(kilo(mass), MOGAS_FUEL_DENSITY_KG_LITER)))

\* Moment::new
NewMoment(name, lever_arm, mass) ==
  [name |-> name, lever_arm |-> lever_arm, mass |-> mass]

\* Moment::total
total(moment) == KgM(F64Mul(kilo(moment.mass), meter(moment.lever_arm)))

\* MassMoment::kgm
kgm(mm) == mm.v

\* CenterOfGravity::meter
cg_meter(cg) ==
  IF cg.tag = "Meter" THEN cg.v ELSE F64Div(cg.v, MM_IN_METER)

\* Limits::new
NewLimits(minimum_weight, mtow, forward_cg_limit, rearward_cg_limit) ==
  [minimum_weight |-> minimum_weight, mtow |-> mtow,
   forward_cg_limit |-> forward_cg_limit, rearward_cg_limit |-> rearward_cg_limit]

\* Airplane::new
NewAirplane(cs, ms, lim, trip) ==
  [callsign |-> cs, moments |-> ms, limits |-> lim, fuel_consumption_trip |-> trip]

\* <f64 as Sum>::sum over the mass moments of ms[1], ..., ms[n]: a left fold
\* of + from -0.0 (from 0.0 before Rust 1.83; the results differ only in the
\* sign of a zero)
RECURSIVE SumKgm(_, _)
SumKgm(ms, n) ==
  IF n = 0 THEN F64Zero(1) ELSE F64Add(SumKgm(ms, n - 1), kgm(total(ms[n])))

\* <f64 as Sum>::sum over the masses of ms[1], ..., ms[n]
RECURSIVE SumKilo(_, _)
SumKilo(ms, n) ==
  IF n = 0 THEN F64Zero(1) ELSE F64Add(SumKilo(ms, n - 1), kilo(ms[n].mass))

\* total_mass_moment summing the masses without their lever arms
total_mass_moment_MassOnly(plane) == KgM(SumKilo(plane.moments, Len(plane.moments)))

\* Airplane::total_mass_moment
total_mass_moment(plane) == KgM(SumKgm(plane.moments, Len(plane.moments)))

\* Airplane::total_mass
total_mass(plane) == Kilo(SumKilo(plane.moments, Len(plane.moments)))

\* Airplane::center_of_gravity
center_of_gravity(plane) ==
  LET kg_mass    == kilo(total_mass(plane))
      kgm_moment == kgm(total_mass_moment(plane))
  IN  Meter(F64Div(kgm_moment, kg_mass))

\* CgWithinLimits as the negation of the tests for a cg outside the limits
CgWithinLimits_NotOutside(plane, cg) ==
  /\ ~F64Gt(cg, cg_meter(plane.limits.rearward_cg_limit))
  /\ ~F64Lt(cg, cg_meter(plane.limits.forward_cg_limit))

\* Airplane::within_limits, lines 349-350, for cg = self.center_of_gravity().meter()
CgWithinLimits(plane, cg) ==
  /\ F64Le(cg, cg_meter(plane.limits.rearward_cg_limit))
  /\ F64Ge(cg, cg_meter(plane.limits.forward_cg_limit))

\* within_limits with the MTOW bound exclusive
within_limits_ExclusiveMtow(plane) ==
  /\ F64Lt(kilo(total_mass(plane)), kilo(plane.limits.mtow))
  /\ CgWithinLimits(plane, cg_meter(center_of_gravity(plane)))

\* Airplane::within_limits
within_limits(plane) ==
  /\ F64Le(kilo(total_mass(plane)), kilo(plane.limits.mtow))
  /\ CgWithinLimits(plane, cg_meter(center_of_gravity(plane)))

\* BindingCgLimit without the forward arm of the choice
BindingCgLimit_AlwaysRearward(plane, arm) == cg_meter(plane.limits.rearward_cg_limit)

\* add_max_fuel_within_limits, lines 243-247: the binding CG limit
BindingCgLimit(plane, arm) ==
  IF F64Ge(meter(arm), ARM_SPLIT)
  THEN cg_meter(plane.limits.rearward_cg_limit)
  ELSE cg_meter(plane.limits.forward_cg_limit)

\* KgMaxMassAt without the airplane's mass moment in the numerator
KgMaxMassAt_WithoutMoment(plane, arm, cg_limit) ==
  F64Div(F64Mul(cg_limit, kilo(total_mass(plane))), F64Sub(meter(arm), cg_limit))

\* add_max_fuel_within_limits, lines 249-251: kg_max_mass for the cg_limit
KgMaxMassAt(plane, arm, cg_limit) ==
  F64Div(F64Sub(F64Mul(cg_limit, kilo(total_mass(plane))),
                kgm(total_mass_moment(plane))),
         F64Sub(meter(arm), cg_limit))

\* add_max_fuel_within_limits, lines 243-251: kg_max_mass
KgMaxMass(plane, arm) == KgMaxMassAt(plane, arm, BindingCgLimit(plane, arm))

\* MtowBinds with the comparison turned round
MtowBinds_Inverted(plane, kg_max_mass) ==
  F64Le(F64Add(kg_max_mass, kilo(total_mass(plane))), kilo(plane.limits.mtow))

\* add_max_fuel_within_limits, line 254: the MTOW test
MtowBinds(plane, kg_max_mass) ==
  F64Ge(F64Add(kg_max_mass, kilo(total_mass(plane))), kilo(plane.limits.mtow))

\* ClampToMtow with a negative mass replaced by zero
ClampToMtow_NotNegative(plane, kg_max_mass) ==
  Kilo(IF MtowBinds(plane, kg_max_mass)
       THEN IF F64Gt(kilo(total_mass(plane)), kilo(plane.limits.mtow)) THEN F64Zero(0)
            ELSE F64Sub(kilo(plane.limits.mtow), kilo(total_mass(plane)))
       ELSE IF F64Lt(kg_max_mass, F64Zero(0)) THEN F64Zero(0) ELSE kg_max_mass)

\* ClampToMtow clamping to the MTOW itself
ClampToMtow_WholeMtow(plane, kg_max_mass) ==
  Kilo(IF MtowBinds(plane, kg_max_mass) THEN kilo(plane.limits.mtow) ELSE kg_max_mass)

\* add_max_fuel_within_limits, lines 253-259: the MTOW clamp of kg_max_mass
ClampToMtow(plane, kg_max_mass) ==
  Kilo(IF MtowBinds(plane, kg_max_mass)
       THEN F64Sub(kilo(plane.limits.mtow), kilo(total_mass(plane)))
       ELSE kg_max_mass)

\* add_max_fuel_within_limits, lines 243-259: max_mass as Mass::Kilo
MaxMassKilo(plane, arm) == ClampToMtow(plane, KgMaxMass(plane, arm))

\* add_max_fuel_within_limits, lines 260-263: the conversion to the fuel type
ToFuel(fuel, max_mass) ==
  IF fuel = "Mogas" THEN to_mogas(max_mass) ELSE to_avgas(max_mass)

\* add_max_fuel_within_limits, lines 243-263: max_mass
MaxMassFuel(plane, arm, fuel) == ToFuel(fuel, MaxMassKilo(plane, arm))

\* CappedLiterOf keeping the greater of the two
CappedLiterOf_Greater(v, max) == IF F64Gt(v, max) THEN v ELSE max

\* add_max_fuel_within_limits, lines 268-272 and 281-285, for the liters v of
\* max_mass and max of max_volume
CappedLiterOf(v, max) == IF F64Gt(v, max) THEN max ELSE v

\* add_max_fuel_within_limits, lines 268-272 and 281-285: volume_liter
CappedLiter(v, max_volume) == CappedLiterOf(to_liter(v), to_liter(max_volume))

\* add_max_fuel_within_limits, lines 274-277 and 287-290: the volume stored
StoredVolume(volume, volume_liter) ==
  IF volume = "Liter" THEN Liter(volume_liter)
  ELSE Gallon(to_gallon(Liter(volume_liter)))

\* LimitedMaxMass storing the requested unit without a cap as well
LimitedMaxMass_UnitHonoured(max_mass, volume, max_volume) ==
  [tag |-> max_mass.tag,
   v   |-> StoredVolume(volume, IF max_volume.tag = "Some"
                                THEN CappedLiter(max_mass.v, max_volume.v)
                                ELSE to_liter(max_mass.v))]

\* add_max_fuel_within_limits, lines 265-296: limited_max_mass
LimitedMaxMass(max_mass, volume, max_volume) ==
  IF max_volume.tag = "Some" /\ max_mass.tag \in {"Avgas", "Mogas"}
  THEN [tag |-> max_mass.tag,
        v   |-> StoredVolume(volume, CappedLiter(max_mass.v, max_volume.v))]
  ELSE max_mass

\* add_max_fuel_within_limits, line 298: the moment the call appends
MaxFuelMoment(plane, name, arm, fuel, volume, max_volume) ==
  NewMoment(name, arm, LimitedMaxMass(MaxMassFuel(plane, arm, fuel), volume, max_volume))

\* Airplane::add_max_fuel_within_limits: the airplane after the call; the
\* returned reference is its last moment
add_max_fuel_within_limits(plane, name, arm, fuel, volume, max_volume) ==
  [plane EXCEPT !.moments =
     Append(@, MaxFuelMoment(plane, name, arm, fuel, volume, max_volume))]

\* add_moment putting the moment at the front of the list
add_moment_AtFront(plane, moment) == [plane EXCEPT !.moments = <<moment>> \o @]

\* Airplane::add_moment
add_moment(plane, moment) == [plane EXCEPT !.moments = Append(@, moment)]

\* the outcome of a call: a returned value or a panic with its message
Returned(x) == [panic |-> FALSE, v |-> x]

Panic(msg) == [panic |-> TRUE, v |-> msg]

\* LandingFuel with the trip consumption taken as liters whatever its unit
LandingFuel_TripNotConverted(plane, fuel_moment) ==
  [tag |-> fuel_moment.mass.tag,
   v   |-> Liter(F64Sub(to_liter(fuel_moment.mass.v), plane.fuel_consumption_trip.v))]

\* total_mass_landing and total_mass_moment_landing, lines 315-323 and 334-342:
\* the last moment's fuel less the trip consumption
LandingFuel(plane, fuel_moment) ==
  [tag |-> fuel_moment.mass.tag,
   v   |-> Liter(F64Sub(to_liter(fuel_moment.mass.v),
                         to_liter(plane.fuel_consumption_trip)))]

\* Airplane::total_mass_moment_landing
total_mass_moment_landing(plane) ==
  IF plane.moments = <<>> THEN Panic("should be present")
  ELSE LET fuel_moment == plane.moments[Len(plane.moments)]
           mass_moment_without_fuel ==
             F64Sub(kgm(total_mass_moment(plane)), kgm(total(fuel_moment)))
       IN  IF fuel_moment.mass.tag = "Kilo" THEN Panic("should be fuel")
           ELSE Returned(KgM(F64Add(mass_moment_without_fuel,
                  kgm(total(NewMoment("Fuel", fuel_moment.lever_arm,
                                      LandingFuel(plane, fuel_moment)))))))

\* total_mass_landing without the test that the last moment is fuel
total_mass_landing_NoFuelTest(plane) ==
  IF plane.moments = <<>> THEN Panic("should be present")
  ELSE Returned(total_mass(plane))

\* Airplane::total_mass_landing
total_mass_landing(plane) ==
  IF plane.moments = <<>> THEN Panic("should be present")
  ELSE LET fuel_moment == plane.moments[Len(plane.moments)]
           mass_without_fuel ==
             F64Sub(kilo(total_mass(plane)), kilo(fuel_moment.mass))
       IN  IF fuel_moment.mass.tag = "Kilo" THEN Panic("should be fuel")
           ELSE Returned(Kilo(F64Add(mass_without_fuel,
                                     kilo(LandingFuel(plane, fuel_moment)))))

(***************************************************************************)
(* The airplanes the program is run on.  The first two are the loading of   *)
(* test::airplane (lines 370-402) with an 80 kg and a 95 kg pilot; the next *)
(* are the two-moment airplane of test::calculate_maximum_mass (lines       *)
(* 404-434) under several maximum take-off weights and with a rearward      *)
(* limit that its centre of gravity is beyond; the last two have a total    *)
(* mass of zero, one with two moments and one with none.                    *)
(***************************************************************************)
Phdha(pilot_mass) ==
  NewAirplane("PHDHA",
    << NewMoment("test", Meter(F64Lit(4294, 10000)), Kilo(F64FromInt(517))),
       NewMoment("test", Meter(F64Lit(515, 1000)), pilot_mass),
       NewMoment("test", Meter(F64Lit(515, 1000)), Kilo(F64FromInt(89))),
       NewMoment("test", Meter(F64Lit(13, 10)), Kilo(F64FromInt(5))),
       NewMoment("test", Meter(F64Lit(325, 1000)), Avgas(Liter(F64FromInt(62)))) >>,
    NewLimits(Kilo(F64FromInt(558)), Kilo(F64FromInt(750)),
              Millimeter(F64FromInt(427)), Millimeter(F64FromInt(523))),
    Liter(F64FromInt(17)))

TwoMoments(minimum_weight, mtow, trip) ==
  NewAirplane("PHDHA",
    << NewMoment("test", Meter(F64FromInt(2)), Kilo(F64FromInt(10))),
       NewMoment("test", Meter(F64FromInt(3)), Kilo(F64FromInt(5))) >>,
    NewLimits(Kilo(F64FromInt(minimum_weight)), Kilo(F64FromInt(mtow)),
              Meter(F64FromInt(1)), Meter(F64FromInt(3))),
    trip)

\* the two-moment airplane with a rearward limit of 2.0 m: its centre of
\* gravity, at 2.33 m, is beyond the limit
TailHeavy ==
  [TwoMoments(10, 40, Liter(F64FromInt(17))) EXCEPT
     !.limits.rearward_cg_limit = Meter(F64FromInt(2))]

\* an airplane of two moments whose masses, 5 kg at 1.0 m and -5 kg at 3.0 m,
\* sum to zero
Weightless ==
  NewAirplane("ZERO",
    << NewMoment("test", Meter(F64FromInt(1)), Kilo(F64FromInt(5))),
       NewMoment("test", Meter(F64FromInt(3)), Kilo(F64Neg(F64FromInt(5)))) >>,
    NewLimits(Kilo(F64FromInt(10)), Kilo(F64FromInt(40)),
              Meter(F64FromInt(1)), Meter(F64FromInt(3))),
    Liter(F64FromInt(17)))

Airplanes ==
  { Phdha(Kilo(F64FromInt(80))),
    Phdha(Kilo(F64FromInt(95))),
    TwoMoments(10, 40, Liter(F64FromInt(17))),
    TwoMoments(10, 24, Liter(F64FromInt(17))),
    TwoMoments(30, 62, Gallon(F64FromInt(2))),
    TailHeavy,
    Weightless,
    NewAirplane("EMPTY", <<>>,
                NewLimits(Kilo(F64FromInt(10)), Kilo(F64FromInt(40)),
                          Meter(F64FromInt(1)), Meter(F64FromInt(3))),
                Liter(F64FromInt(17))) }

\* the moments add_moment is called with
NewMoments ==
  { NewMoment("Baggage", Meter(F64Lit(13, 10)), Kilo(F64FromInt(5))),
    NewMoment("Aux", Meter(F64Lit(325, 1000)), Mogas(Gallon(F64FromInt(10)))) }

\* the arguments add_max_fuel_within_limits is called with: arm, fuel type,
\* volume unit and optional cap
SolverCalls ==
  { <<Meter(F64FromInt(4)),       "Avgas", "Liter",  None>>,
    <<Meter(F64FromInt(4)),       "Avgas", "Gallon", None>>,
    <<Meter(F64FromInt(3)),       "Avgas", "Liter",  None>>,
    <<Meter(F64Lit(25, 100)),     "Mogas", "Liter",  None>>,
    <<Meter(F64Lit(3125, 1000)),  "Avgas", "Liter",  None>>,
    <<Meter(F64Lit(3125, 1000)),  "Avgas", "Gallon", Some(Liter(F64Lit(625, 10)))>>,
    <<Meter(F64FromInt(4)),       "Mogas", "Liter",  Some(Gallon(F64FromInt(3)))>> }

\* the number of calls made on one airplane
MaxCalls == 2

(***************************************************************************)
(* The state: the fields of the Airplane (lines 202-207), the outcome of    *)
(* the last call and the number of calls made.                              *)
(***************************************************************************)
VARIABLES calls, callsign, moments, limits, fuel_consumption_trip, ret

vars == <<calls, callsign, moments, limits, fuel_consumption_trip, ret>>

\* the Airplane value the fields make up
self == NewAirplane(callsign, moments, limits, fuel_consumption_trip)

\* the outcome of the call op(args)
Outcome(op, args, res) == [op |-> op, args |-> args, panic |-> res.panic, v |-> res.v]

\* Airplane::new
Init ==
  \E a \in Airplanes :
    /\ callsign = a.callsign
    /\ moments = a.moments
    /\ limits = a.limits
    /\ fuel_consumption_trip = a.fuel_consumption_trip
    /\ ret = Outcome("new", <<>>, Returned("self"))
    /\ calls = 0

\* a call that takes &self: the fields stay as they are
Query(op, res) ==
  /\ calls < MaxCalls
  /\ calls' = calls + 1
  /\ ret' = Outcome(op, <<>>, res)
  /\ UNCHANGED <<callsign, moments, limits, fuel_consumption_trip>>

\* Airplane::add_moment
AddMoment(moment) ==
  /\ calls < MaxCalls
  /\ calls' = calls + 1
  /\ moments' = add_moment(self, moment).moments
  /\ ret' = Outcome("add_moment", <<moment>>, Returned("unit"))
  /\ UNCHANGED <<callsign, limits, fuel_consumption_trip>>

\* Airplane::add_max_fuel_within_limits: returns a reference to the last moment
AddMaxFuelWithinLimits(name, arm, fuel, volume, max_volume) ==
  /\ calls < MaxCalls
  /\ calls' = calls + 1
  /\ moments' = add_max_fuel_within_limits(self, name, arm, fuel, volume, max_volume).moments
  /\ ret' = Outcome("add_max_fuel_within_limits", <<name, arm, fuel, volume, max_volume>>,
                    Returned(moments'[Len(moments')]))
  /\ UNCHANGED <<callsign, limits, fuel_consumption_trip>>

TotalMass == Query("total_mass", Returned(total_mass(self)))

TotalMassMoment == Query("total_mass_moment", Returned(total_mass_moment(self)))

TotalMassLanding == Query("total_mass_landing", total_mass_landing(self))

TotalMassMomentLanding == Query("total_mass_moment_landing", total_mass_moment_landing(self))

WithinLimits == Query("within_limits", Returned(within_limits(self)))

Next ==
  \/ \E moment \in NewMoments : AddMoment(moment)
  \/ \E c \in SolverCalls : AddMaxFuelWithinLimits("Fuel", c[1], c[2], c[3], c[4])
  \/ TotalMass
  \/ TotalMassMoment
  \/ TotalMassLanding
  \/ TotalMassMomentLanding
  \/ WithinLimits

Spec == Init /\ [][Next]_vars

(***************************************************************************)
(* The volume conversions on their own: an airplane is constructed with a   *)
(* trip consumption drawn from Volumes, and Volume::to_gallon and           *)
(* Volume::to_liter are applied to it and then to each other's results.     *)
(***************************************************************************)
\* the largest numerator of the halves of a liter or gallon that are tried
MaxHalves == 127

\* the volumes tried: 0, 0.5, ..., 63.5, a negative one, the least positive
\* f64 and 2^1023, each as liters and as gallons
VolumeValues ==
  { F64Lit(k, 2) : k \in 0..MaxHalves }
    \cup { F64Neg(F64Lit(125, 2)),
           [k |-> "fin", s |-> 0, m |-> <<1>>, e |-> F64MinExp],
           [k |-> "fin", s |-> 0, m |-> <<1>>, e |-> F64MaxExp - 1] }

Volumes == { Liter(x) : x \in VolumeValues } \cup { Gallon(x) : x \in VolumeValues }

\* Airplane::new with the volume as fuel_consumption_trip
VolumeInit ==
  \E trip \in Volumes :
    /\ callsign = "VOLUME"
    /\ moments = <<>>
    /\ limits = NewLimits(Kilo(F64FromInt(10)), Kilo(F64FromInt(40)),
                          Meter(F64FromInt(1)), Meter(F64FromInt(3)))
    /\ fuel_consumption_trip = trip
    /\ ret = Outcome("new", <<>>, Returned("self"))
    /\ calls = 0

\* the volume the next conversion is applied to: the airplane's trip
\* consumption, then the result of the conversion before
Receiver == IF ret.op = "new" THEN fuel_consumption_trip ELSE ret.v

\* a conversion of the receiver
Convert(op, res) ==
  /\ calls < MaxCalls
  /\ calls' = calls + 1
  /\ ret' = Outcome(op, <<Receiver>>, Returned(res))
  /\ UNCHANGED <<callsign, moments, limits, fuel_consumption_trip>>

\* Volume::to_gallon, the result as Volume::Gallon
ToGallon == Convert("to_gallon", Gallon(to_gallon(Receiver)))

\* Volume::to_liter, the result as Volume::Liter
ToLiter == Convert("to_liter", Liter(to_liter(Receiver)))

VolumeNext == ToGallon \/ ToLiter

VolumeSpec == VolumeInit /\ [][VolumeNext]_vars

(***************************************************************************)
(* Properties.  A call's pre-state is self, its post-state self', and ret'   *)
(* tells which call the step was.                                            *)
(***************************************************************************)
\* the step is a call of add_max_fuel_within_limits
SolverStep == ret'.op = "add_max_fuel_within_limits"

\* the step is a call of add_max_fuel_within_limits without volume cap
UncappedSolverStep == SolverStep /\ ret'.args[5] = None

\* 2^-48: a few units in the last place of a f64, as a relative tolerance
F64Tolerance == [k |-> "fin", s |-> 0, m |-> <<1>>, e |-> -48]

\* TRUE iff x is greater than y by more than the tolerance relative to scale
ExceedsBy(x, y, scale) == F64Gt(F64Sub(x, y), F64Mul(F64Tolerance, scale))

\* TRUE iff x and y differ by more than the tolerance relative to scale
DiffersBy(x, y, scale) == ExceedsBy(x, y, scale) \/ ExceedsBy(y, x, scale)

\* C1 as stated: after add_max_fuel_within_limits has appended its moment,
\* total_mass() is not greater than the MTOW limit.
C1_TotalMassNotAboveMtow ==
  [][SolverStep => ~F64Gt(kilo(total_mass(self')), kilo(limits.mtow))]_vars

\* C1 amended: after add_max_fuel_within_limits has appended its moment,
\* total_mass() is not greater than the MTOW limit by more than a floating
\* tolerance of 2^-48 relative to |mtow| + |total_mass() before the call|.
C1_TotalMassNotAboveMtowWithinTolerance ==
  [][SolverStep =>
       \A before \in {kilo(total_mass(self))}, after \in {kilo(total_mass(self'))},
          mtow \in {kilo(limits.mtow)} :
         ~ExceedsBy(after, mtow, F64Add(F64Abs(mtow), F64Abs(before)))]_vars

\* C1 witness: a call has appended its moment and the kg -> liter -> kg
\* conversion of the clamped mass has left total_mass() above the MTOW
C1_Witness ==
  /\ ret.op = "add_max_fuel_within_limits"
  /\ F64Gt(kilo(total_mass(self)), kilo(limits.mtow))

\* total_mass_moment / total_mass of the airplane
MomentOverMass == F64Div(kgm(total_mass_moment(self)), kilo(total_mass(self)))

\* the airplane is the PHDHA reference loading with a pilot of the given mass
IsPhdha(pilot_kg) ==
  /\ moments = Phdha(Kilo(F64FromInt(pilot_kg))).moments
  /\ limits = Phdha(Kilo(F64FromInt(pilot_kg))).limits

\* C2: within_limits() returns true if and only if total_mass <= mtow and
\* forward_cg_limit <= total_mass_moment / total_mass <= rearward_cg_limit, all
\* three comparisons inclusive and minimum_weight playing no role; the PHDHA
\* reference loading is inside the limits with an 80 kg pilot and outside with
\* a 95 kg pilot.
C2_WithinLimitsIff ==
  ret.op = "within_limits" =>
    /\ ret.v = (/\ F64Le(kilo(total_mass(self)), kilo(limits.mtow))
                /\ F64Le(cg_meter(limits.forward_cg_limit), MomentOverMass)
                /\ F64Le(MomentOverMass, cg_meter(limits.rearward_cg_limit)))
    /\ IsPhdha(80) => ret.v = TRUE
    /\ IsPhdha(95) => ret.v = FALSE

\* C2 witness: within_limits() has returned true for an airplane whose
\* total_mass() is exactly the MTOW
C2_Witness ==
  /\ ret.op = "within_limits"
  /\ ret.v = TRUE
  /\ F64Eq(kilo(total_mass(self)), kilo(limits.mtow))

\* the step is a call of add_max_fuel_within_limits whose arm is the binding
\* CG limit, so that line 251 divides by zero
ArmOnBindingLimit ==
  F64Eq(meter(ret'.args[2]), BindingCgLimit(self, ret'.args[2]))

\* C3: if within_limits() is true before the call and the arm differs from the
\* binding CG limit, then after add_max_fuel_within_limits without volume cap
\* has appended its moment, within_limits() is still true.
C3_WithinLimitsPreserved ==
  [][(UncappedSolverStep /\ within_limits(self) /\ ~ArmOnBindingLimit)
       => within_limits(self')]_vars

\* C4: when the arm equals the binding CG limit, add_max_fuel_within_limits
\* ends in a fatal condition: it appends no moment and returns no result.
C4_DivisionByZeroIsFatal ==
  [][(SolverStep /\ ArmOnBindingLimit) => (ret'.panic /\ moments' = moments)]_vars

\* the last call was one of the two landing recomputations
LandingCall == ret.op \in {"total_mass_landing", "total_mass_moment_landing"}

\* C5: total_mass_landing() and total_mass_moment_landing() each end in a
\* fatal error, returning no value, when the moment list is empty or the last
\* moment's mass is Mass::Kilo; they return a value in every other case.
C5_LandingFatalIff ==
  LandingCall =>
    ret.panic = (moments = <<>> \/ moments[Len(moments)].mass.tag = "Kilo")

\* C5 witness: total_mass_landing() has ended in the fatal error on a list
\* whose last moment is a Mass::Kilo
C5_Witness ==
  /\ ret.op = "total_mass_landing"
  /\ ret.panic
  /\ moments # <<>>
  /\ moments[Len(moments)].mass.tag = "Kilo"

\* the last moment of the list, its fuel density and the trip consumption in
\* liters
LastMoment == moments[Len(moments)]

LastDensity ==
  IF LastMoment.mass.tag = "Avgas" THEN AVGAS_FUEL_DENSITY_KG_LITER
  ELSE MOGAS_FUEL_DENSITY_KG_LITER

TripLiter == to_liter(fuel_consumption_trip)

\* the mass burned on the trip: c * d
TripKilo == F64Mul(TripLiter, LastDensity)

\* C6 as stated: when the last moment is fuel of density d at arm a and the
\* trip consumption is c liters, total_mass_landing() = total_mass() - c*d and
\* total_mass_moment_landing() = total_mass_moment() - c*d*a, and the stored
\* moment list is not modified.
C6_LandingFormulas ==
  [][/\ (ret'.op = "total_mass_landing" /\ ~ret'.panic) =>
          /\ ret'.v = Kilo(F64Sub(kilo(total_mass(self)), TripKilo))
          /\ moments' = moments
     /\ (ret'.op = "total_mass_moment_landing" /\ ~ret'.panic) =>
          /\ ret'.v = KgM(F64Sub(kgm(total_mass_moment(self)),
                                 F64Mul(TripKilo, meter(LastMoment.lever_arm))))
          /\ moments' = moments]_vars

\* total_mass() - c*d and the magnitudes it is computed from
LandingMass == F64Sub(kilo(total_mass(self)), TripKilo)

LandingMassScale ==
  F64Add(F64Abs(kilo(total_mass(self))),
         F64Add(F64Abs(kilo(LastMoment.mass)), F64Abs(TripKilo)))

\* total_mass_moment() - c*d*a and the magnitudes it is computed from
LandingMoment ==
  F64Sub(kgm(total_mass_moment(self)), F64Mul(TripKilo, meter(LastMoment.lever_arm)))

LandingMomentScale ==
  F64Add(F64Abs(kgm(total_mass_moment(self))),
         F64Add(F64Abs(kgm(total(LastMoment))),
                F64Abs(F64Mul(TripKilo, meter(LastMoment.lever_arm)))))

\* C6 amended: when the last moment is fuel of density d at arm a and the trip
\* consumption is c liters (a Gallon value converted to liters first),
\* total_mass_landing() = total_mass() - c*d and total_mass_moment_landing() =
\* total_mass_moment() - c*d*a within a floating tolerance of 2^-48 relative
\* to the magnitudes involved, and the stored moment list is not modified.
C6_LandingFormulasWithinTolerance ==
  [][/\ (ret'.op = "total_mass_landing" /\ ~ret'.panic) =>
          /\ ret'.v.tag = "Kilo"
          /\ ~DiffersBy(ret'.v.v, LandingMass, LandingMassScale)
          /\ moments' = moments
     /\ (ret'.op = "total_mass_moment_landing" /\ ~ret'.panic) =>
          /\ ret'.v.tag = "KgM"
          /\ ~DiffersBy(ret'.v.v, LandingMoment, LandingMomentScale)
          /\ moments' = moments]_vars

\* C6 witness: total_mass_landing() has returned, for a trip consumption given
\* in gallons, a value that is not the f64 total_mass() - c*d
C6_Witness ==
  /\ ret.op = "total_mass_landing"
  /\ ~ret.panic
  /\ fuel_consumption_trip.unit = "Gallon"
  /\ ret.v # Kilo(LandingMass)

\* C7: the moment list only grows: add_moment and add_max_fuel_within_limits
\* each append exactly one moment at the end (for the solver, carrying the
\* given name and arm, and being the moment returned), every moment already in
\* the list keeps its position, name, arm and mass, and no other call changes
\* the list.
C7_MomentsAppendOnly ==
  [][/\ ret'.op = "add_moment" => moments' = Append(moments, ret'.args[1])
     /\ SolverStep =>
          /\ Len(moments') = Len(moments) + 1
          /\ SubSeq(moments', 1, Len(moments)) = moments
          /\ moments'[Len(moments')].name = ret'.args[1]
          /\ moments'[Len(moments')].lever_arm = ret'.args[2]
          /\ ~ret'.panic
          /\ ret'.v = moments'[Len(moments')]
     /\ ret'.op \notin {"add_moment", "add_max_fuel_within_limits"} =>
          moments' = moments]_vars

\* C7 witness: add_moment and then add_max_fuel_within_limits have each
\* appended to the two-moment airplane
C7_Witness ==
  /\ ret.op = "add_max_fuel_within_limits"
  /\ Len(moments) = 4
  /\ moments[3].name = "Baggage"
  /\ moments[4].name = "Fuel"
  /\ ret.v = moments[4]

\* the step is a call of add_max_fuel_within_limits with a volume cap
CappedSolverStep == SolverStep /\ ret'.args[5].tag = "Some"

\* the volume the step has appended
AppendedVolume == moments'[Len(moments')].mass.v

\* the volume the solve of the step computes, after the MTOW clamp, in liters
SolvedLiter == to_liter(MaxMassFuel(self, ret'.args[2], ret'.args[3]).v)

\* the cap of the step in liters
CapLiter == to_liter(ret'.args[5].v)

\* the lesser of the volumes v and cap
Lesser(v, cap) == IF F64Gt(v, cap) THEN cap ELSE v

\* the appended volume is the volume of lesser liters in the requested unit
AppendedIs(lesser) ==
  /\ moments'[Len(moments')].mass.tag = ret'.args[3]
  /\ AppendedVolume.unit = ret'.args[4]
  /\ AppendedVolume.v = IF ret'.args[4] = "Liter" THEN lesser
                        ELSE F64Div(lesser, LITERS_IN_GALLON)

\* the appended volume, read in liters, is greater than cap
AppendedExceeds(cap) == F64Gt(to_liter(AppendedVolume), cap)

\* the appended volume, read in liters, is greater than cap by more than the
\* tolerance
AppendedExceedsTolerance(cap) ==
  ExceedsBy(to_liter(AppendedVolume), cap, F64Abs(cap))

\* C8 as stated: with a volume cap, the appended fuel volume is the lesser of
\* the solved volume and the cap, both compared in liters, stored in the
\* requested unit; so the appended volume never exceeds the cap.
C8_CappedVolume ==
  [][CappedSolverStep =>
       \A solved \in {SolvedLiter}, cap \in {CapLiter} :
         /\ AppendedIs(Lesser(solved, cap))
         /\ ~AppendedExceeds(cap)]_vars

\* C8 amended: with a volume cap, the appended fuel volume is the lesser of the
\* solved volume and the cap, both compared in liters, stored in the requested
\* unit; so the appended volume never exceeds the cap by more than a floating
\* tolerance of 2^-48 relative to the cap.
C8_CappedVolumeWithinTolerance ==
  [][CappedSolverStep =>
       \A solved \in {SolvedLiter}, cap \in {CapLiter} :
         /\ AppendedIs(Lesser(solved, cap))
         /\ ~AppendedExceedsTolerance(cap)]_vars

\* C8 witness: a call with a binding cap has stored gallons that, read back in
\* liters, lie above the cap
C8_Witness ==
  /\ ret.op = "add_max_fuel_within_limits"
  /\ ret.args[5].tag = "Some"
  /\ ret.v.mass.v.unit = "Gallon"
  /\ F64Gt(to_liter(ret.v.mass.v), to_liter(ret.args[5].v))

\* the CG limit the claims name for an arm of arm meters: the rearward limit
\* from 0.5 m on, the forward limit before
LimitFor(arm) ==
  IF F64Ge(arm, F64Lit(5, 10)) THEN cg_meter(limits.rearward_cg_limit)
  ELSE cg_meter(limits.forward_cg_limit)

\* m = (cg_limit * total_mass - total_mass_moment) / (arm - cg_limit)
Solution(cg_limit, mass, moment, arm) ==
  F64Div(F64Sub(F64Mul(cg_limit, mass), moment), F64Sub(arm, cg_limit))

\* the mass of the moment the step has appended, and the totals after it
AppendedKilo == kilo(moments'[Len(moments')].mass)

MassAfter == kilo(total_mass(self'))

MomentAfter == kgm(total_mass_moment(self'))

\* the airplane is the two-moment airplane of test::calculate_maximum_mass
\* with the given MTOW and the step solves at the arm of 4.0 m
ReferenceCase(mtow_kg) ==
  /\ moments = TwoMoments(10, mtow_kg, Liter(F64FromInt(17))).moments
  /\ limits = TwoMoments(10, mtow_kg, Liter(F64FromInt(17))).limits
  /\ meter(ret'.args[2]) = F64FromInt(4)

\* the appended moment is fuel of the kind asked for
AppendedIsFuel == moments'[Len(moments')].mass.tag = ret'.args[3]

\* C9 as stated: when the unclamped solution m satisfies total_mass + m < mtow
\* and no cap is given, the appended fuel moment's kilo() equals m =
\* (cg_limit*total_mass - total_mass_moment)/(arm - cg_limit), cg_limit the
\* rearward limit if arm >= 0.5 m and the forward limit otherwise, and
\* afterwards total_mass_moment / total_mass equals exactly that limit; the
\* reference case (MTOW 40 kg, arm 4.0 m) gives 10 kg.
C9_UnclampedSolution ==
  [][UncappedSolverStep =>
       \A mass \in {kilo(total_mass(self))}, moment \in {kgm(total_mass_moment(self))},
          arm \in {meter(ret'.args[2])}, mtow \in {kilo(limits.mtow)} :
         \A cg_limit \in {LimitFor(arm)} :
           \A m \in {Solution(cg_limit, mass, moment, arm)} :
             /\ F64Lt(F64Add(mass, m), mtow) =>
                  /\ AppendedIsFuel
                  /\ AppendedKilo = m
                  /\ F64Div(MomentAfter, MassAfter) = cg_limit
             /\ ReferenceCase(40) => AppendedKilo = F64FromInt(10)]_vars

\* total_mass_moment after the step differs from cg_limit * total_mass by more
\* than the tolerance relative to the terms of the solve
OffLimit(cg_limit, mass, moment, mass_after, moment_after) ==
  DiffersBy(moment_after, F64Mul(cg_limit, mass_after),
            F64Add(F64Add(F64Abs(F64Mul(cg_limit, mass)), F64Abs(moment)),
                   F64Add(F64Abs(F64Mul(cg_limit, mass_after)), F64Abs(moment_after))))

\* C9 amended: when the unclamped solution m satisfies total_mass + m < mtow
\* and no cap is given, the appended fuel moment's kilo() equals m =
\* (cg_limit*total_mass - total_mass_moment)/(arm - cg_limit) within a floating
\* tolerance of 2^-48 relative to m, cg_limit the rearward limit if arm >= 0.5 m
\* and the forward limit otherwise, and afterwards total_mass_moment equals
\* cg_limit * total_mass within the tolerance relative to the terms; the
\* reference case (MTOW 40 kg, arm 4.0 m) gives exactly 10 kg.
C9_UnclampedSolutionWithinTolerance ==
  [][UncappedSolverStep =>
       \A mass \in {kilo(total_mass(self))}, moment \in {kgm(total_mass_moment(self))},
          arm \in {meter(ret'.args[2])}, mtow \in {kilo(limits.mtow)} :
         \A cg_limit \in {LimitFor(arm)} :
           \A m \in {Solution(cg_limit, mass, moment, arm)} :
             /\ F64Lt(F64Add(mass, m), mtow) =>
                  \A appended \in {AppendedKilo}, mass_after \in {MassAfter},
                     moment_after \in {MomentAfter} :
                    /\ AppendedIsFuel
                    /\ ~DiffersBy(appended, m, F64Abs(m))
                    /\ ~OffLimit(cg_limit, mass, moment, mass_after, moment_after)
             /\ ReferenceCase(40) => AppendedKilo = F64FromInt(10)]_vars

\* C9 witness: a call without cap at an arm before 0.5 m has appended the
\* unclamped solution, total_mass() staying below the MTOW, and
\* total_mass_moment / total_mass has come out just under the forward limit
C9_Witness ==
  /\ ret.op = "add_max_fuel_within_limits"
  /\ ret.args[5] = None
  /\ F64Lt(meter(ret.args[2]), F64Lit(5, 10))
  /\ F64Lt(kilo(total_mass(self)), kilo(limits.mtow))
  /\ F64Lt(MomentOverMass, cg_meter(limits.forward_cg_limit))

\* C10 as stated: when the unclamped solution m satisfies total_mass + m >=
\* mtow and no cap is given, the appended moment's kilo() equals mtow -
\* total_mass, so total_mass() afterwards equals the MTOW exactly; the
\* reference case (MTOW 24 kg, arm 4.0 m) gives 9 kg.
C10_ClampedSolution ==
  [][UncappedSolverStep =>
       \A mass \in {kilo(total_mass(self))}, moment \in {kgm(total_mass_moment(self))},
          arm \in {meter(ret'.args[2])}, mtow \in {kilo(limits.mtow)} :
         \A m \in {Solution(LimitFor(arm), mass, moment, arm)} :
           /\ F64Ge(F64Add(mass, m), mtow) =>
                /\ AppendedKilo = F64Sub(mtow, mass)
                /\ MassAfter = mtow
           /\ ReferenceCase(24) => AppendedKilo = F64FromInt(9)]_vars

\* C10 amended: when the unclamped solution m satisfies total_mass + m >= mtow
\* and no cap is given, the appended moment's kilo() equals mtow - total_mass
\* and total_mass() afterwards equals the MTOW, both within a floating
\* tolerance of 2^-48 relative to |mtow| + |total_mass before|; the reference
\* case (MTOW 24 kg, arm 4.0 m) gives exactly 9 kg and exactly the MTOW.
C10_ClampedSolutionWithinTolerance ==
  [][UncappedSolverStep =>
       \A mass \in {kilo(total_mass(self))}, moment \in {kgm(total_mass_moment(self))},
          arm \in {meter(ret'.args[2])}, mtow \in {kilo(limits.mtow)} :
         \A m \in {Solution(LimitFor(arm), mass, moment, arm)} :
           /\ F64Ge(F64Add(mass, m), mtow) =>
                \A appended \in {AppendedKilo}, mass_after \in {MassAfter},
                   scale \in {F64Add(F64Abs(mtow), F64Abs(mass))} :
                  /\ ~DiffersBy(appended, F64Sub(mtow, mass), scale)
                  /\ ~DiffersBy(mass_after, mtow, scale)
           /\ ReferenceCase(24) =>
                /\ AppendedKilo = F64FromInt(9)
                /\ MassAfter = F64FromInt(24)]_vars

\* C10 witness: a call without cap has appended the clamped mass and
\* total_mass() has come out just above the MTOW
C10_Witness ==
  /\ ret.op = "add_max_fuel_within_limits"
  /\ ret.args[5] = None
  /\ kilo(ret.v.mass) = F64Add(F64FromInt(47), [k |-> "fin", s |-> 0, m |-> <<1>>, e |-> -47])
  /\ F64Gt(kilo(total_mass(self)), kilo(limits.mtow))


(***************************************************************************)
(* C11: the totals as sums over the moment list.                            *)
(***************************************************************************)
\* mass.kilo() of each moment of the list, in list order
MassTerms == <<>> \o [i \in DOMAIN moments |-> kilo(moments[i].mass)]

\* mass.kilo() * lever_arm.meter() of each moment of the list, in list order
MomentTerms ==
  <<>> \o [i \in DOMAIN moments |->
             F64Mul(kilo(moments[i].mass), meter(moments[i].lever_arm))]

\* the f64 sum xs[1] + ... + xs[n], added from the left
RECURSIVE SumInOrder(_, _)
SumInOrder(xs, n) ==
  IF n = 0 THEN F64Zero(1) ELSE F64Add(SumInOrder(xs, n - 1), xs[n])

\* the partial sums one more term gives: each partial sum of R, which has
\* added the terms of its index set used, with one further term added
PermutationStep(xs, R) ==
  UNION { { [used |-> p.used \cup {i}, sum |-> F64Add(p.sum, xs[i])] :
              i \in DOMAIN xs \ p.used } : p \in R }

RECURSIVE PermutationFold(_, _, _)
PermutationFold(xs, R, k) ==
  IF k = 0 THEN R ELSE PermutationFold(xs, PermutationStep(xs, R), k - 1)

\* the f64 sums of the terms xs added from the left in every order
PermutationSums(xs) ==
  { p.sum : p \in PermutationFold(xs, {[used |-> {}, sum |-> F64Zero(1)]}, Len(xs)) }

\* the sum of the absolute values of xs[1], ..., xs[n]
RECURSIVE SumAbs(_, _)
SumAbs(xs, n) ==
  IF n = 0 THEN F64Zero(0) ELSE F64Add(SumAbs(xs, n - 1), F64Abs(xs[n]))

\* every term of xs is a finite number
AllFinite(xs) == \A i \in DOMAIN xs : IsFinite(xs[i])

\* the value result is the sum of xs in list order and in every other order
SumOfEveryOrder(result, xs) ==
  /\ result = SumInOrder(xs, Len(xs))
  /\ \A sum \in PermutationSums(xs) : sum = result

\* the value result is the sum of xs in list order, and the sum in any other
\* order is within Len(xs) * 2^-48 * (|xs[1]| + ... + |xs[n]|) of it when the
\* terms are finite
SumOfEveryOrderWithinTolerance(result, xs) ==
  /\ result = SumInOrder(xs, Len(xs))
  /\ AllFinite(xs) =>
       \A scale \in {F64Mul(F64FromInt(Len(xs)), SumAbs(xs, Len(xs)))} :
         \A sum \in PermutationSums(xs) : ~DiffersBy(sum, result, scale)

\* C11 as stated: total_mass() equals the sum of mass.kilo() over the moment
\* list and total_mass_moment() the sum of mass.kilo() * lever_arm.meter()
\* over it, and both sums are the same for every permutation of the list.
C11_TotalsAreOrderIndependentSums ==
  /\ ret.op = "total_mass" => SumOfEveryOrder(kilo(ret.v), MassTerms)
  /\ ret.op = "total_mass_moment" => SumOfEveryOrder(kgm(ret.v), MomentTerms)

\* C11 amended: total_mass() is the f64 sum of mass.kilo() over the moment
\* list in list order and total_mass_moment() that of mass.kilo() *
\* lever_arm.meter(); when the terms are finite, the sum in any other order
\* differs from it by no more than a floating tolerance (n * 2^-48 relative to
\* the sum of the absolute values of the n terms).
C11_TotalsAreSumsWithinTolerance ==
  /\ ret.op = "total_mass" => SumOfEveryOrderWithinTolerance(kilo(ret.v), MassTerms)
  /\ ret.op = "total_mass_moment" =>
       SumOfEveryOrderWithinTolerance(kgm(ret.v), MomentTerms)

\* C11 witness: total_mass_moment() is called after a moment has been
\* appended to the PHDHA loading, and the order of the terms changes the sum
C11_Witness ==
  /\ ret.op = "total_mass_moment"
  /\ Len(moments) = 6
  /\ AllFinite(MomentTerms)
  /\ \E sum \in PermutationSums(MomentTerms) : sum # kgm(ret.v)


(***************************************************************************)
(* C12: the round trip of the volume conversions, under VolumeSpec.         *)
(***************************************************************************)
\* the last call was op, applied to what the other conversion made of the
\* airplane's trip consumption, a volume of the given unit
RoundTripOf(op, unit) ==
  /\ ret.op = op
  /\ fuel_consumption_trip.unit = unit
  /\ ret.args[1] = IF unit = "Liter" THEN Gallon(to_gallon(fuel_consumption_trip))
                   ELSE Liter(to_liter(fuel_consumption_trip))

\* x is zero or a finite number with 2^-1000 <= |x| <= 2^1000: dividing and
\* multiplying it by 3.78541 neither overflows nor leaves the normal range
InNormalRange(x) ==
  /\ IsFinite(x)
  /\ \/ IsZero(x)
     \/ /\ F64Ge(F64Abs(x), [k |-> "fin", s |-> 0, m |-> <<1>>, e |-> -1000])
        /\ F64Le(F64Abs(x), [k |-> "fin", s |-> 0, m |-> <<1>>, e |-> 1000])

\* C12 as stated: Liter(l) converted to gallons and that gallon value back to
\* liters gives l, and Gallon(g) converted to liters and back gives g.
C12_VolumeRoundTrip ==
  /\ RoundTripOf("to_liter", "Liter") => ret.v = fuel_consumption_trip
  /\ RoundTripOf("to_gallon", "Gallon") => ret.v = fuel_consumption_trip

\* C12 amended: for l zero or finite with 2^-1000 <= |l| <= 2^1000, Liter(l)
\* converted to gallons and back to liters gives a Liter value within 2^-48 *
\* |l| of l, and symmetrically Gallon(g) to liters and back.
C12_VolumeRoundTripWithinTolerance ==
  /\ RoundTripOf("to_liter", "Liter") /\ InNormalRange(fuel_consumption_trip.v) =>
       /\ ret.v.unit = "Liter"
       /\ ~DiffersBy(ret.v.v, fuel_consumption_trip.v, F64Abs(fuel_consumption_trip.v))
  /\ RoundTripOf("to_gallon", "Gallon") /\ InNormalRange(fuel_consumption_trip.v) =>
       /\ ret.v.unit = "Gallon"
       /\ ~DiffersBy(ret.v.v, fuel_consumption_trip.v, F64Abs(fuel_consumption_trip.v))

\* C12 witness: 62.5 l has been converted to gallons and back to liters, and
\* the result is not 62.5 l
C12_Witness ==
  /\ RoundTripOf("to_liter", "Liter")
  /\ fuel_consumption_trip = Liter(F64Lit(125, 2))
  /\ ret.v # fuel_consumption_trip


(***************************************************************************)
(* C13: a negative solution.                                                *)
(***************************************************************************)
\* m after the MTOW clamp: mtow - total_mass if total_mass + m >= mtow, else m
Clamped(m, mass, mtow) == IF F64Ge(F64Add(mass, m), mtow) THEN F64Sub(mtow, mass) ELSE m

\* x < 0
Negative(x) == F64Lt(x, F64Zero(0))

\* the step has returned its moment, the one moment appended to the list
ReturnsAppended == ~ret'.panic /\ moments' = Append(moments, ret'.v)

\* C13: when the solve yields a negative m, from the CG equation or from the
\* MTOW clamp, add_max_fuel_within_limits does not clamp it to zero and does
\* not fail: it appends a moment whose kilo() is negative.
C13_NegativeSolutionAppended ==
  [][SolverStep =>
       \A mass \in {kilo(total_mass(self))}, moment \in {kgm(total_mass_moment(self))},
          arm \in {meter(ret'.args[2])}, mtow \in {kilo(limits.mtow)} :
         \A m \in {Solution(LimitFor(arm), mass, moment, arm)} :
           (Negative(m) \/ Negative(Clamped(m, mass, mtow))) =>
             /\ ReturnsAppended
             /\ Negative(kilo(ret'.v.mass))]_vars


\* C13 witness: the airplane's centre of gravity was beyond the rearward limit
\* of 2.0 m, the call at an arm of 4.0 m has solved m = -2.5 kg, and the
\* moment it has appended and returned has a negative kilo()
C13_Witness ==
  /\ ret.op = "add_max_fuel_within_limits"
  /\ ~ret.panic
  /\ limits = TailHeavy.limits
  /\ Len(moments) = 3
  /\ meter(ret.args[2]) = F64FromInt(4)
  /\ moments[3] = ret.v
  /\ Negative(kilo(ret.v.mass))
  /\ ~DiffersBy(kilo(ret.v.mass), F64Neg(F64Lit(25, 10)), F64Lit(25, 10))


(***************************************************************************)
(* C14: the solver called a second time.                                    *)
(***************************************************************************)
\* the step is a call of add_max_fuel_within_limits without volume cap that
\* follows such a call at the same arm, the arm not on the binding CG limit
RepeatedSolverStep ==
  /\ ret.op = "add_max_fuel_within_limits"
  /\ ret.args[5] = None
  /\ UncappedSolverStep
  /\ ret'.args[2] = ret.args[2]
  /\ ~ArmOnBindingLimit

\* |x| <= 2^-48 * scale
WithinTolerance(x, scale) == F64Le(F64Abs(x), F64Mul(F64Tolerance, scale))

\* what the rounding errors of the two solves are relative to, for the list
\* of the airplane before the step: |mtow| + S + (|cg_limit| * S + T) /
\* |arm - cg_limit|, S the sum of the |mass.kilo()| and T that of the
\* |mass.kilo() * lever_arm.meter()| of the list
ResidualScale(cg_limit, arm, mtow, S, T) ==
  F64Add(F64Add(F64Abs(mtow), S),
         F64Div(F64Add(F64Mul(F64Abs(cg_limit), S), T),
                F64Abs(F64Sub(arm, cg_limit))))

\* C14 as stated: a second call of add_max_fuel_within_limits with the same
\* arm and no volume cap, the arm different from the binding CG limit, appends
\* a moment of mass zero: total_mass() and total_mass_moment() after it equal
\* their values after the first call.
C14_SecondCallAppendsZero ==
  [][RepeatedSolverStep =>
       /\ IsZero(kilo(ret'.v.mass))
       /\ F64Eq(kilo(total_mass(self')), kilo(total_mass(self)))
       /\ F64Eq(kgm(total_mass_moment(self')), kgm(total_mass_moment(self)))]_vars

\* C14 amended: such a second call appends a further moment, and when
\* total_mass() and total_mass_moment() after the first call are finite, its
\* mass is zero within a floating tolerance of 2^-48 relative to
\* ResidualScale, and total_mass() and total_mass_moment() after it equal
\* their values after the first call within that tolerance (times 1 + |arm|
\* for the moment).
C14_SecondCallAppendsZeroWithinTolerance ==
  [][RepeatedSolverStep =>
       \A arm \in {meter(ret'.args[2])}, mass \in {kilo(total_mass(self))},
          moment \in {kgm(total_mass_moment(self))}, appended \in {kilo(ret'.v.mass)} :
         /\ ReturnsAppended
         /\ (IsFinite(mass) /\ IsFinite(moment)) =>
              \A scale \in {ResidualScale(LimitFor(arm), arm, kilo(limits.mtow),
                                          SumAbs(MassTerms, Len(moments)),
                                          SumAbs(MomentTerms, Len(moments)))} :
                /\ WithinTolerance(appended, scale)
                /\ WithinTolerance(F64Sub(kilo(total_mass(self')), mass), scale)
                /\ WithinTolerance(F64Sub(kgm(total_mass_moment(self')), moment),
                                   F64Mul(F64Add(F64FromInt(1), F64Abs(arm)), scale))]_vars

\* C14 witness: add_max_fuel_within_limits has been called twice at the arm of
\* 0.25 m without cap, and the moment the second call has appended has a
\* mass that is not zero
C14_Witness ==
  /\ ret.op = "add_max_fuel_within_limits"
  /\ ret.args[5] = None
  /\ meter(ret.args[2]) = F64Lit(25, 100)
  /\ Len(moments) = 4
  /\ moments[4] = ret.v
  /\ moments[3].name = "Fuel"
  /\ moments[3].lever_arm = ret.args[2]
  /\ IsFinite(kilo(total_mass(self)))
  /\ IsFinite(kgm(total_mass_moment(self)))
  /\ Negative(kilo(ret.v.mass))


(***************************************************************************)
(* C15: the unit of the volume stored.                                      *)
(***************************************************************************)
\* the mass the call of the step would have appended had it been asked for
\* the volume in the given unit
AppendedFor(unit) ==
  MaxFuelMoment(self, ret'.args[1], ret'.args[2], ret'.args[3], unit, ret'.args[5]).mass

\* C15: without volume cap add_max_fuel_within_limits stores the appended fuel
\* as a Liter volume whatever volume unit was requested, and the moment's
\* kilo() is the same for a Liter and for a Gallon request; with a cap the
\* volume is stored in the unit requested.
C15_UncappedStoredAsLiter ==
  [][SolverStep =>
       \A appended \in {ret'.v.mass} :
         /\ ReturnsAppended
         /\ appended.tag = ret'.args[3]
         /\ UncappedSolverStep =>
              /\ appended.v.unit = "Liter"
              /\ \A asked \in {AppendedFor("Liter"), AppendedFor("Gallon")} :
                   /\ asked.v.unit = "Liter"
                   /\ kilo(asked) = kilo(appended)
         /\ CappedSolverStep => appended.v.unit = ret'.args[4]]_vars

\* C15 witness: a call without cap that asked for gallons has appended a
\* moment whose volume is in liters
C15_Witness ==
  /\ ret.op = "add_max_fuel_within_limits"
  /\ ret.args[4] = "Gallon"
  /\ ret.args[5] = None
  /\ moments[Len(moments)] = ret.v
  /\ ret.v.mass.v.unit = "Liter"
  /\ ~IsZero(kilo(ret.v.mass))


(***************************************************************************)
(* C16: a total mass of zero.                                               *)
(***************************************************************************)
\* C16: when total_mass() is zero, as it is for an airplane with an empty
\* moment list, the centre of gravity total_mass_moment / total_mass is a
\* division by zero, NaN or an infinity, and within_limits() returns false.
C16_ZeroMassNotWithinLimits ==
  (ret.op = "within_limits" /\ IsZero(kilo(total_mass(self)))) =>
    /\ ~IsFinite(MomentOverMass)
    /\ moments = <<>> => IsNaN(MomentOverMass)
    /\ ~ret.panic
    /\ ret.v = FALSE

\* C16 witness: within_limits() has been called on an airplane with an empty
\* moment list and has returned false
C16_Witness ==
  /\ ret.op = "within_limits"
  /\ moments = <<>>
  /\ IsZero(kilo(total_mass(self)))
  /\ IsNaN(cg_meter(center_of_gravity(self)))
  /\ ret.v = FALSE

====
